---- MODULE Spec2Model ----
\* Natural-language search server over MongoDB (newdaksh/Foreign-key-mongo).
\* The model covers the request handlers of src/index.js (the current server,
\* lines 1-1274, and the older copy of it, lines 1275-2243) and the debug
\* server of src/unnamed/part_000 (lines 219-634): translator output ->
\* query object -> find with limit -> population of referenced users ->
\* response.  Every handler is one action; the store is read-only.
EXTENDS Integers, Sequences, FiniteSets, TLC

\* ------------------------------------------------------------------- state
VARIABLES
    ALLOW_PII,  \* process.env.ALLOW_PII === "true", fixed at startup
    openai,     \* TRUE iff an OpenAI client was configured (OPENAI_API_KEY set)
    db,         \* the store: collection name -> sequence of documents
    phase,      \* "idle": waiting for a request; "responded": one was answered
    req,        \* the request that was answered
    filters,    \* what parsePromptToMongoQuery returned, per collection hint
    reads,      \* the database operations the handler issued, in order
    l,          \* the handler's effective limit
    res,        \* the response: [status, body]
    task        \* the handler invocations in progress, when requests overlap

vars == <<ALLOW_PII, openai, db, phase, req, filters, reads, l, res, task>>

\* ------------------------------------------------------------------ values
\* A JavaScript value is a record [t, v]: t is the kind, v the payload.
\*   "undef" (absent), "null", "bool", "num", "str", "oid" (ObjectId),
\*   "date" (Date, v = time value, InvalidTime for an Invalid Date),
\*   "arr" (v = sequence of values), "obj" (plain object: v = sequence of
\*   <<key, value>> pairs in insertion order).
Undef == [t |-> "undef", v |-> 0]

Null == [t |-> "null", v |-> 0]

Bool(b) == [t |-> "bool", v |-> b]

Num(n) == [t |-> "num", v |-> n]

Str(s) == [t |-> "str", v |-> s]

Oid(i) == [t |-> "oid", v |-> i]

DateV(n) == [t |-> "date", v |-> n]

Arr(s) == [t |-> "arr", v |-> s]

Obj(ps) == [t |-> "obj", v |-> ps]

\* The time value of an Invalid Date (NaN).
InvalidTime == -1

\* The outcome of an evaluation that threw.
Thrown == [t |-> "throw", v |-> 0]

Keys(o) == {o.v[i][1] : i \in 1..Len(o.v)}

HasKey(o, k) == o.t = "obj" /\ k \in Keys(o)

\* o[k]: undefined when the key is absent (or o is no plain object).
Get(o, k) ==
    IF HasKey(o, k)
    THEN o.v[CHOOSE i \in 1..Len(o.v) : o.v[i][1] = k][2]
    ELSE Undef

\* JavaScript truthiness.
Truthy(x) ==
    CASE x.t = "undef" -> FALSE
      [] x.t = "null" -> FALSE
      [] x.t = "bool" -> x.v
      [] x.t = "num" -> x.v # 0
      [] x.t = "str" -> x.v # ""
      [] OTHER -> TRUE

\* { ...o, k: x }: an existing key keeps its position, a new one is appended.
Put(o, k, x) ==
    IF HasKey(o, k)
    THEN Obj([i \in 1..Len(o.v) |-> IF o.v[i][1] = k THEN <<k, x>> ELSE o.v[i]])
    ELSE Obj(Append(o.v, <<k, x>>))

KeepPair(p, ks) == p[1] \notin ks

\* const { k1, k2, ...rest } = o: the object without the keys ks.
Without(o, ks) == Obj(SelectSeq(o.v, LAMBDA p : KeepPair(p, ks)))

\* ------------------------------------------------------------- utilities
\* new Date(s) for the date strings the model uses; any other string is
\* an Invalid Date.
ParseDate(s) ==
    CASE s = "2025-11-01T00:00:00Z" -> 20251101
      [] s = "2025-11-30T23:59:59Z" -> 20251130
      [] s = "2025-12-01T00:00:00Z" -> 20251201
      [] OTHER -> InvalidTime

\* new Date(x) for x a string or a number.
NewDate(x) ==
    CASE x.t = "str" -> DateV(ParseDate(x.v))
      [] x.t = "num" -> DateV(x.v)
      [] OTHER -> DateV(InvalidTime)

\* obj["$dateFromString"].dateString: reading a property of null or
\* undefined throws; of any other non-object it is undefined.
DateStringOf(m) ==
    CASE m.t \in {"null", "undef"} -> Thrown
      [] m.t = "obj" -> Get(m, "dateString")
      [] OTHER -> Undef

\* index.js convertDateFromString.  A Date is an object without enumerable
\* keys, so the for-in copy of it is the empty object.
RECURSIVE convertDateFromString(_)
convertDateFromString(obj) ==
    CASE obj.t = "arr" ->
            LET out == [i \in 1..Len(obj.v) |-> convertDateFromString(obj.v[i])]
            IN  IF \E i \in 1..Len(out) : out[i] = Thrown THEN Thrown ELSE Arr(out)
      [] obj.t = "date" -> Obj(<<>>)
      [] obj.t = "obj" ->
            LET ds == IF HasKey(obj, "$dateFromString")
                      THEN DateStringOf(Get(obj, "$dateFromString"))
                      ELSE Undef
            IN  IF ds = Thrown THEN Thrown
                ELSE IF HasKey(obj, "$dateFromString") /\ Truthy(ds) THEN NewDate(ds)
                ELSE LET out == [i \in 1..Len(obj.v) |->
                                   <<obj.v[i][1], convertDateFromString(obj.v[i][2])>>]
                     IN  IF \E i \in 1..Len(out) : out[i][2] = Thrown
                         THEN Thrown ELSE Obj(out)
      [] OTHER -> obj

\* index.js hideSensitive (current server): only email is removed.
hideSensitive(doc) == IF ~ALLOW_PII THEN Without(doc, {"email"}) ELSE doc

\* index.js hideSensitive (older copy): Salary and email are removed.
hideSensitiveOld(doc) == IF ~ALLOW_PII THEN Without(doc, {"Salary", "email"}) ELSE doc

\* Number(x).  NaN is [nan |-> TRUE]; the strings the model uses as limits
\* are "5" (numeric) and non-numeric text.
Number(x) ==
    CASE x.t = "num" -> [nan |-> FALSE, n |-> x.v]
      [] x.t = "null" -> [nan |-> FALSE, n |-> 0]
      [] x.t = "bool" -> [nan |-> FALSE, n |-> IF x.v THEN 1 ELSE 0]
      [] x.t = "str" /\ x.v = "5" -> [nan |-> FALSE, n |-> 5]
      [] x.t = "str" /\ x.v = "" -> [nan |-> FALSE, n |-> 0]
      [] OTHER -> [nan |-> TRUE, n |-> 0]

Min(a, b) == IF a <= b THEN a ELSE b

\* const { limit = 10 } = body: the default replaces undefined only.
OrDefault(x, d) == IF x.t = "undef" THEN d ELSE x

\* Math.min(Number(limit) || 10, ceiling), limit = 10 when absent.
\* NaN and 0 are falsy; a negative number is truthy and passes.
ClampLimit(limit, ceiling) ==
    LET n == Number(OrDefault(limit, Num(10)))
    IN  Min(IF n.nan \/ n.n = 0 THEN 10 ELSE n.n, ceiling)

\* ------------------------------------------------------------------ store
\* MongoDB comparison of a document's field value with a query operand.
SameKind(a, b) == a.t = b.t /\ a.t \in {"num", "date", "str"}

QueryOps == {"$in", "$gte", "$lte", "$gt", "$lt"}

\* The keys starting with "$" that the model's filters use (the model
\* cannot look inside a string): the operators above, the date marker, and
\* one name that is no operator of the store.
DollarKeys == QueryOps \cup {"$dateFromString", "$unknown"}

\* A condition { $op: operand, ... } (its first key is an operator).
IsOperatorObj(c) == c.t = "obj" /\ Len(c.v) > 0 /\ c.v[1][1] \in DollarKeys

\* field value `val` (Undef when the document has no such field) against
\* one operator.
MatchOp(val, op, operand) ==
    CASE op = "$in" -> operand.t = "arr" /\ \E i \in 1..Len(operand.v) : operand.v[i] = val
      [] op = "$gte" -> SameKind(val, operand) /\ val.v >= operand.v
      [] op = "$lte" -> SameKind(val, operand) /\ val.v <= operand.v
      [] op = "$gt" -> SameKind(val, operand) /\ val.v > operand.v
      [] op = "$lt" -> SameKind(val, operand) /\ val.v < operand.v
      [] OTHER -> FALSE

\* { field: cond }: an operator object applies each operator; anything else
\* is an equality match (null also matches a missing field).
MatchCond(val, cond) ==
    IF IsOperatorObj(cond)
    THEN \A i \in 1..Len(cond.v) : MatchOp(val, cond.v[i][1], cond.v[i][2])
    ELSE IF cond.t = "null" THEN val.t \in {"null", "undef"}
    ELSE val = cond

\* A document matches a filter when every top-level field condition holds;
\* the empty filter matches every document.
MatchDoc(doc, filter) ==
    \A i \in 1..Len(filter.v) : MatchCond(Get(doc, filter.v[i][1]), filter.v[i][2])

\* The store rejects a filter that uses an operator it does not know.
Rejected(filter) ==
    \E i \in 1..Len(filter.v) :
        \/ filter.v[i][1] \in DollarKeys
        \/ /\ IsOperatorObj(filter.v[i][2])
           /\ \E j \in 1..Len(filter.v[i][2].v) : filter.v[i][2].v[j][1] \notin QueryOps

Take(s, n) == SubSeq(s, 1, Min(n, Len(s)))

\* cursor.limit(n): 0 is no limit; a negative n asks for |n| documents in a
\* single batch.
Limit(s, n) == IF n = 0 THEN s ELSE IF n < 0 THEN Take(s, -n) ELSE Take(s, n)

\* db.collection(name): a collection that does not exist is empty.
Collection(name) == IF name \in DOMAIN db THEN db[name] ELSE <<>>

\* collection.find(filter, { projection }).toArray(), excl the keys the
\* projection excludes: the matching documents in collection order.
Find(name, filter, excl) ==
    LET c == Collection(name)
        hit == SelectSeq(c, LAMBDA d : MatchDoc(d, filter))
    IN  [i \in 1..Len(hit) |-> Without(hit[i], excl)]

\* The projection of a users read: ALLOW_PII ? {} : { email: 0 }.
Projection == IF ALLOW_PII THEN {} ELSE {"email"}

\* The older copy's: ALLOW_PII ? {} : { Salary: 0, email: 0 }.
ProjectionOld == IF ALLOW_PII THEN {} ELSE {"Salary", "email"}

\* One database operation as the handler issued it.
Read(name, filter, lim) == [coll |-> name, filter |-> filter, limit |-> lim]

\* ------------------------------------------------------------- translator
\* What the chat-completion call gave: "error" (the call threw: API error,
\* timeout), "empty" (empty text), "garbage" (text JSON.parse rejects) or
\* "json" (text JSON.parse accepts, json being the parsed value).
Reply(k, j) == [k |-> k, json |-> j]

NoMatch(tag) == Obj(<< <<"_id", Str(tag)>> >>)

\* A translator wrapper that fails open: every failure gives the match-all
\* query.
parsePromptFailOpen(prompt, reply) ==
    IF reply.k = "json" THEN reply.json ELSE Obj(<<>>)

\* index.js parsePromptToMongoQuery (current server): every failure gives a
\* query on _id that matches no document.
parsePromptToMongoQuery(prompt, reply) ==
    IF ~openai \/ ~Truthy(prompt)
    THEN NoMatch("intentionally_no_match_on_empty_prompt")
    ELSE CASE reply.k = "error" -> NoMatch("intentionally_no_match_on_api_error")
           [] reply.k = "empty" -> NoMatch("intentionally_no_match_on_empty_response")
           [] reply.k = "json" -> reply.json
           [] OTHER -> NoMatch("intentionally_no_match_on_parse_error")

\* index.js parsePromptToMongoQuery (older copy): every failure gives {}.
parsePromptToMongoQueryOld(prompt, reply) ==
    IF ~openai \/ ~Truthy(prompt) THEN Obj(<<>>)
    ELSE IF reply.k = "json" THEN reply.json ELSE Obj(<<>>)

\* part_000 parsePromptToMongoQuery (debug server): no client, no text, a
\* failed call and unparseable text all give {}.
parsePromptToMongoQueryDebug(prompt, reply) ==
    IF ~openai THEN Obj(<<>>)
    ELSE IF reply.k = "json" THEN reply.json ELSE Obj(<<>>)

\* ---------------------------------------------------------------- helpers
RECURSIVE Flatten(_)
\* flatMap: the concatenation of a sequence of sequences.
Flatten(ss) == IF ss = <<>> THEN <<>> ELSE Head(ss) \o Flatten(Tail(ss))

RECURSIVE Dedup(_)
\* Array.from(new Set(s)): first occurrences, in order.
Dedup(s) ==
    IF s = <<>> THEN <<>>
    ELSE LET r == Dedup(SubSeq(s, 1, Len(s) - 1))
             x == s[Len(s)]
         IN  IF \E i \in 1..Len(r) : r[i] = x THEN r ELSE Append(r, x)

\* (x || []) for a field that is an array or absent.
OrEmpty(x) == IF Truthy(x) THEN x.v ELSE <<>>

\* [a, b].filter(Boolean)
FilterBoolean(s) == SelectSeq(s, Truthy)

\* (d.participant_ids || []).map((id) => id.toString())
ParticipantIds(d) == OrEmpty(Get(d, "participant_ids"))

\* [d.Male_id, d.Female_id].filter(Boolean).map((id) => id.toString())
PartnerIds(d) == FilterBoolean(<<Get(d, "Male_id"), Get(d, "Female_id")>>)

\* An identifier list that is never empty.
EventUserIdsOrUnknown(docs) == <<Oid(999)>>

\* The de-duplicated identifiers a page of events refers to.
EventUserIds(docs) == Dedup(Flatten([i \in 1..Len(docs) |-> ParticipantIds(docs[i])]))

\* The de-duplicated identifiers a page of dating records refers to.
DatingUserIds(docs) == Dedup(Flatten([i \in 1..Len(docs) |-> PartnerIds(docs[i])]))

\* { _id: { $in: ids } }
InIds(ids) == Obj(<< <<"_id", Obj(<< <<"$in", Arr(ids)>> >>)>> >>)

\* new Map(users.map((u) => [u._id.toString(), f(u)])).get(id): the last
\* user with that _id, undefined when there is none.
MapGet(users, id) ==
    LET hit == {i \in 1..Len(users) : Get(users[i], "_id") = id}
    IN  IF hit = {} THEN Undef
        ELSE users[CHOOSE i \in hit : \A j \in hit : j <= i]

\* a || b
Or(a, b) == IF Truthy(a) THEN a ELSE b

Placeholder(id) == Obj(<< <<"_id", id>> >>)

\* { count: docs.length, results: docs }
Envelope(docs) == Obj(<< <<"count", Num(Len(docs))>>, <<"results", Arr(docs)>> >>)

\* res.json(body): JSON.stringify drops the keys whose value is undefined.
RECURSIVE Json(_)
Json(x) ==
    CASE x.t = "arr" -> Arr([i \in 1..Len(x.v) |->
                              IF x.v[i].t = "undef" THEN Null ELSE Json(x.v[i])])
      [] x.t = "obj" ->
            LET kept == SelectSeq(x.v, LAMBDA p : p[2].t # "undef")
            IN  Obj([i \in 1..Len(kept) |-> <<kept[i][1], Json(kept[i][2])>>])
      [] OTHER -> x

\* res.status(500).json({ error: "Server error" })
ServerError == Obj(<< <<"error", Str("Server error")>> >>)

\* ------------------------------------------------------ API key middleware
\* index.js:48, with API_KEY unset in the environment.
API_KEY == "testkey123"

\* The text of an Authorization header: a first word, the number of
\* whitespace characters after it, and the rest.  A text without whitespace
\* is its rest alone.
Header(scheme, spaces, rest) == [scheme |-> scheme, spaces |-> spaces, rest |-> rest]

\* req.header("Authorization") || "" of a request without the header.
NoHeader == Header("", 0, "")

\* The /i flag of the prefix pattern.
Lower(word) == IF word \in {"Bearer", "BEARER"} THEN "bearer" ELSE word

\* auth.replace(/^Bearer\s+/i, ""): the prefix is removed where the text
\* starts with it, and the text is left as it is elsewhere.
Token(auth) ==
    IF Lower(auth.scheme) = "bearer" /\ auth.spaces >= 1
    THEN Header("", 0, auth.rest)
    ELSE auth

\* A middleware that lets every request through.
ApiKeyOpen(path, auth) == "next"

\* The middleware: "next" where the request goes on to its route, "401"
\* where the middleware answers it.
ApiKey(path, auth) ==
    IF path = "/health" THEN "next"
    ELSE IF Token(auth) = NoHeader \/ Token(auth) # Header("", 0, API_KEY) THEN "401"
    ELSE "next"

Unauthorized ==
    Obj(<< <<"error", Str("Unauthorized. Set Authorization: Bearer <API_KEY>")>> >>)

\* What a handler run leaves: the response, the database operations it
\* issued, its effective limit and the translated queries.
Out(status, body, rds, lim, fs) ==
    [status |-> status, body |-> Json(body), reads |-> rds, l |-> lim, filters |-> fs]

NoFilters == [users |-> Undef, events |-> Undef, dating |-> Undef]

\* ------------------------------------------------- foreign-key redirect
\* index.js processForeignKeyQuery.  failAt = k makes the k-th database
\* operation of the request fail (0: none fails); the catch turns every
\* failure into the empty envelope.
processForeignKeyQuery(foreignKeyQuery, criteria, limit, failAt) ==
    LET lim == ClampLimit(Num(limit), 100)
        isEvents == foreignKeyQuery = Str("events")
        coll == IF isEvents THEN "events" ELSE "datings"
        convertedCriteria == convertDateFromString(criteria)
        r1 == Read(coll, convertedCriteria, 0)
        found == Find(coll, convertedCriteria, {})
        userIds == IF isEvents THEN EventUserIds(found) ELSE DatingUserIds(found)
        r2 == Read("users", InIds(userIds), lim)
        users == Limit(Find("users", InIds(userIds), Projection), lim)
        safe == [i \in 1..Len(users) |-> hideSensitive(users[i])]
        none(rds) == [result |-> Envelope(<<>>), reads |-> rds]
    IN  IF foreignKeyQuery \notin {Str("events"), Str("dating")} THEN none(<<>>)
        ELSE IF convertedCriteria = Thrown THEN none(<<>>)
        ELSE IF failAt = 1 \/ Rejected(convertedCriteria) THEN none(<<r1>>)
        ELSE IF Len(found) = 0 THEN none(<<r1>>)
        ELSE IF Len(userIds) = 0 THEN none(<<r1>>)
        ELSE IF failAt = 2 THEN none(<<r1, r2>>)
        ELSE [result |-> Envelope(safe), reads |-> <<r1, r2>>]

\* A test that looks at the criteria alone.
HasCriteria(filter) == Truthy(filter) /\ Truthy(Get(filter, "__criteria"))

\* filter && filter.__foreign_key_query && filter.__criteria
IsForeignKey(filter) ==
    Truthy(filter) /\ Truthy(Get(filter, "__foreign_key_query"))
        /\ Truthy(Get(filter, "__criteria"))

\* ------------------------------------------------------ HTTP handlers
\* POST /search/users (current server).
SearchUsersRun(call, limit, failAt) ==
    LET lim == ClampLimit(limit, 100)
        parsed == parsePromptToMongoQuery(call.prompt, call.reply)
        fs == [NoFilters EXCEPT !.users = parsed]
        fk == processForeignKeyQuery(Get(parsed, "__foreign_key_query"),
                                     Get(parsed, "__criteria"), lim, failAt)
        filter == convertDateFromString(parsed)
        r1 == Read("users", filter, lim)
        results == Limit(Find("users", filter, Projection), lim)
        safe == [i \in 1..Len(results) |-> hideSensitive(results[i])]
    IN  IF IsForeignKey(parsed) THEN Out(200, fk.result, fk.reads, lim, fs)
        ELSE IF filter = Thrown THEN Out(500, ServerError, <<>>, lim, fs)
        ELSE IF failAt = 1 \/ Rejected(filter) THEN Out(500, ServerError, <<r1>>, lim, fs)
        ELSE Out(200, Envelope(safe), <<r1>>, lim, fs)

\* req.query.populate !== "false"
PopulateDefaultTrue(param) == param # Str("false")

\* A populate guard that forgets the page may be empty.
PopulateRequested(populate, docs) == populate

\* A populate guard that ignores the caller's populate parameter.
PopulateNonEmpty(populate, docs) == Len(docs) > 0

\* The populate guard of POST /search/events and /search/dating.
PopulateGuard(populate, docs) == populate /\ Len(docs) > 0

\* POST /search/events, lines 632-640: the participants of one event.
WithParticipants(ev, users) ==
    LET ids == ParticipantIds(ev)
        participants == [i \in 1..Len(ids) |->
                           Or(MapGet(users, ids[i]), Placeholder(ids[i]))]
    IN  Put(ev, "participants", Arr(participants))

\* POST /search/events (current server).
SearchEventsRun(call, limit, param, failAt) ==
    LET populate == PopulateDefaultTrue(param)
        lim == ClampLimit(limit, 100)
        baseFilter == parsePromptToMongoQuery(call.prompt, call.reply)
        fs == [NoFilters EXCEPT !.events = baseFilter]
        filter == convertDateFromString(baseFilter)
        r1 == Read("events", filter, lim)
        docs == Limit(Find("events", filter, {}), lim)
        userIds == EventUserIds(docs)
        r2 == Read("users", InIds(userIds), 0)
        found == Find("users", InIds(userIds), Projection)
        users == [i \in 1..Len(found) |-> hideSensitive(found[i])]
        populated == [i \in 1..Len(docs) |-> WithParticipants(docs[i], users)]
    IN  IF filter = Thrown THEN Out(500, ServerError, <<>>, lim, fs)
        ELSE IF failAt = 1 \/ Rejected(filter) THEN Out(500, ServerError, <<r1>>, lim, fs)
        ELSE IF ~PopulateGuard(populate, docs) THEN Out(200, Envelope(docs), <<r1>>, lim, fs)
        ELSE IF failAt = 2 THEN Out(500, ServerError, <<r1, r2>>, lim, fs)
        ELSE Out(200, Envelope(populated), <<r1, r2>>, lim, fs)

\* dt.Male_id ? usersById.get(dt.Male_id.toString()) : null
Partner(dt, key, users) ==
    IF Truthy(Get(dt, key)) THEN MapGet(users, Get(dt, key)) ELSE Null

\* POST /search/dating, lines 681-685: the partners of one record.
WithPartners(dt, users) ==
    Put(Put(dt, "Male", Partner(dt, "Male_id", users)),
        "Female", Partner(dt, "Female_id", users))

\* POST /search/dating (current server).
SearchDatingRun(call, limit, param, failAt) ==
    LET populate == PopulateDefaultTrue(param)
        lim == ClampLimit(limit, 100)
        baseFilter == parsePromptToMongoQuery(call.prompt, call.reply)
        fs == [NoFilters EXCEPT !.dating = baseFilter]
        filter == convertDateFromString(baseFilter)
        r1 == Read("datings", filter, lim)
        docs == Limit(Find("datings", filter, {}), lim)
        userIds == DatingUserIds(docs)
        r2 == Read("users", InIds(userIds), 0)
        found == Find("users", InIds(userIds), Projection)
        users == [i \in 1..Len(found) |-> hideSensitive(found[i])]
        populated == [i \in 1..Len(docs) |-> WithPartners(docs[i], users)]
    IN  IF filter = Thrown THEN Out(500, ServerError, <<>>, lim, fs)
        ELSE IF failAt = 1 \/ Rejected(filter) THEN Out(500, ServerError, <<r1>>, lim, fs)
        ELSE IF ~PopulateGuard(populate, docs) THEN Out(200, Envelope(docs), <<r1>>, lim, fs)
        ELSE IF failAt = 2 THEN Out(500, ServerError, <<r1, r2>>, lim, fs)
        ELSE Out(200, Envelope(populated), <<r1, r2>>, lim, fs)

\* ------------------------------------------------------ combined search
\* One find(...).limit(lim).toArray() of a handler that has already issued n
\* database operations: ok is FALSE when the conversion, the store or the
\* operation failed (the handler's catch takes over).
FindStage(coll, parsed, excl, lim, n, failAt) ==
    LET filter == convertDateFromString(parsed)
        r == Read(coll, filter, lim)
    IN  IF filter = Thrown THEN [ok |-> FALSE, docs |-> <<>>, reads |-> <<>>]
        ELSE IF failAt = n + 1 \/ Rejected(filter)
        THEN [ok |-> FALSE, docs |-> <<>>, reads |-> <<r>>]
        ELSE [ok |-> TRUE, docs |-> Limit(Find(coll, filter, excl), lim), reads |-> <<r>>]

\* A stage that issued nothing.
Skip(docs) == [ok |-> TRUE, docs |-> docs, reads |-> <<>>]

\* The users projection and hideSensitive of a copy of the server
\* ("current" or "older").
ProjectionOf(copy) == IF copy = "older" THEN ProjectionOld ELSE Projection

Hide(copy, doc) == IF copy = "older" THEN hideSensitiveOld(doc) ELSE hideSensitive(doc)

\* POST /search/all, "Populate events participants": one users read, issued
\* only when the page refers to at least one identifier.
AllPopulateEvents(docs, copy, n, failAt) ==
    LET userIds == EventUserIds(docs)
        r == Read("users", InIds(userIds), 0)
        found == Find("users", InIds(userIds), ProjectionOf(copy))
        users == [i \in 1..Len(found) |-> Hide(copy, found[i])]
    IN  IF Len(docs) = 0 \/ Len(userIds) = 0 THEN Skip(docs)
        ELSE IF failAt = n + 1 THEN [ok |-> FALSE, docs |-> docs, reads |-> <<r>>]
        ELSE [ok |-> TRUE, reads |-> <<r>>,
              docs |-> [i \in 1..Len(docs) |-> WithParticipants(docs[i], users)]]

\* POST /search/all, "Populate dating Male/Female".
AllPopulateDating(docs, copy, n, failAt) ==
    LET userIds == DatingUserIds(docs)
        r == Read("users", InIds(userIds), 0)
        found == Find("users", InIds(userIds), ProjectionOf(copy))
        users == [i \in 1..Len(found) |-> Hide(copy, found[i])]
    IN  IF Len(docs) = 0 \/ Len(userIds) = 0 THEN Skip(docs)
        ELSE IF failAt = n + 1 THEN [ok |-> FALSE, docs |-> docs, reads |-> <<r>>]
        ELSE [ok |-> TRUE, reads |-> <<r>>,
              docs |-> [i \in 1..Len(docs) |-> WithPartners(docs[i], users)]]

\* { count: n, data: docs }
Section(docs) == Obj(<< <<"count", Num(Len(docs))>>, <<"data", Arr(docs)>> >>)

\* A body whose top-level count leaves the dating section out.
AllBodyTwoSections(us, es, ds, fs) ==
    Obj(<< <<"count", Num(Len(us) + Len(es))>>,
           <<"results", Obj(<< <<"users", Section(us)>>, <<"events", Section(es)>>,
                               <<"dating", Section(ds)>> >>)>>,
           <<"queries", Obj(<< <<"users", fs.users>>, <<"events", fs.events>>,
                               <<"dating", fs.dating>> >>)>> >>)

\* The body of POST /search/all.
AllBody(us, es, ds, fs) ==
    Obj(<< <<"count", Num(Len(us) + Len(es) + Len(ds))>>,
           <<"results", Obj(<< <<"users", Section(us)>>, <<"events", Section(es)>>,
                               <<"dating", Section(ds)>> >>)>>,
           <<"queries", Obj(<< <<"users", fs.users>>, <<"events", fs.events>>,
                               <<"dating", fs.dating>> >>)>> >>)

\* What /search/all has gathered so far: ok is FALSE once an operation
\* failed (the catch answers 500), reads are the operations issued.
Gathered == [ok |-> TRUE, reads |-> <<>>, users |-> <<>>, events |-> <<>>, dating |-> <<>>]

\* The outcome of one stage joins what was gathered.
Add(acc, slot, stage) ==
    [acc EXCEPT !.ok = stage.ok, !.reads = acc.reads \o stage.reads, ![slot] = stage.docs]

\* POST /search/all, "Users": the foreign-key redirect or the users find.
AllUsers(acc, usersFilter, lim, failAt) ==
    LET fk == processForeignKeyQuery(Get(usersFilter, "__foreign_key_query"),
                                     Get(usersFilter, "__criteria"), lim, failAt)
        uFind == FindStage("users", usersFilter, Projection, lim, 0, failAt)
    IN  IF IsForeignKey(usersFilter)
        THEN Add(acc, "users", [ok |-> TRUE, reads |-> fk.reads,
                                docs |-> OrEmpty(Get(fk.result, "results"))])
        ELSE Add(acc, "users", [uFind EXCEPT !.docs = [i \in 1..Len(uFind.docs) |->
                                                         hideSensitive(uFind.docs[i])]])

\* POST /search/all, "Events" and "Dating": the find of one collection.
AllFind(acc, slot, coll, parsed, lim, failAt) ==
    IF ~acc.ok THEN acc
    ELSE Add(acc, slot, FindStage(coll, parsed, {}, lim, Len(acc.reads), failAt))

\* if (populate) { "Populate events participants" ... }
AllEventsPopulated(acc, populate, copy, failAt) ==
    IF ~acc.ok \/ ~populate THEN acc
    ELSE Add(acc, "events", AllPopulateEvents(acc.events, copy, Len(acc.reads), failAt))

\* if (populate) { ... "Populate dating Male/Female" }
AllDatingPopulated(acc, populate, copy, failAt) ==
    IF ~acc.ok \/ ~populate THEN acc
    ELSE Add(acc, "dating", AllPopulateDating(acc.dating, copy, Len(acc.reads), failAt))

\* res.json({ count, results, queries }), or the catch's 500.
AllOut(acc, lim, fs) ==
    IF acc.ok
    THEN Out(200, AllBody(acc.users, acc.events, acc.dating, fs), acc.reads, lim, fs)
    ELSE Out(500, ServerError, acc.reads, lim, fs)

\* POST /search/all (current server).
SearchAllRun(prompt, replies, limit, param, failAt) ==
    LET populate == PopulateDefaultTrue(param)
        lim == ClampLimit(limit, 30)
        fs == [users |-> parsePromptToMongoQuery(prompt, replies.users),
               events |-> parsePromptToMongoQuery(prompt, replies.events),
               dating |-> parsePromptToMongoQuery(prompt, replies.dating)]
        u == AllUsers(Gathered, fs.users, lim, failAt)
        e == AllFind(u, "events", "events", fs.events, lim, failAt)
        d == AllFind(e, "dating", "datings", fs.dating, lim, failAt)
        pe == AllEventsPopulated(d, populate, "current", failAt)
        pd == AllDatingPopulated(pe, populate, "current", failAt)
    IN  AllOut(pd, lim, fs)

\* ------------------------------------------------------------ older copy
\* filter && Object.keys(filter).length > 0
NonEmptyFilter(filter) == Truthy(filter) /\ Len(filter.v) > 0

\* POST /search/users (older copy).
OldSearchUsersRun(call, limit, failAt) ==
    LET lim == ClampLimit(limit, 100)
        parsed == parsePromptToMongoQueryOld(call.prompt, call.reply)
        fs == [NoFilters EXCEPT !.users = parsed]
        u == FindStage("users", parsed, ProjectionOld, lim, 0, failAt)
        safe == [i \in 1..Len(u.docs) |-> hideSensitiveOld(u.docs[i])]
    IN  IF ~u.ok THEN Out(500, ServerError, u.reads, lim, fs)
        ELSE Out(200, Envelope(safe), u.reads, lim, fs)

\* POST /search/all (older copy), "Users": an empty filter skips the find.
OldAllUsers(acc, usersFilter, lim, failAt) ==
    LET uFind == FindStage("users", usersFilter, ProjectionOld, lim, 0, failAt)
    IN  IF NonEmptyFilter(usersFilter)
        THEN Add(acc, "users", [uFind EXCEPT !.docs = [i \in 1..Len(uFind.docs) |->
                                                         hideSensitiveOld(uFind.docs[i])]])
        ELSE acc

\* POST /search/all (older copy), "Events" and "Dating".
OldAllFind(acc, slot, coll, parsed, lim, failAt) ==
    IF NonEmptyFilter(parsed) THEN AllFind(acc, slot, coll, parsed, lim, failAt) ELSE acc

\* POST /search/all (older copy): an empty filter skips its collection, and
\* populate must be asked for.
OldSearchAllRun(prompt, replies, limit, param, failAt) ==
    LET populate == param = Str("true")
        lim == ClampLimit(limit, 30)
        fs == [users |-> parsePromptToMongoQueryOld(prompt, replies.users),
               events |-> parsePromptToMongoQueryOld(prompt, replies.events),
               dating |-> parsePromptToMongoQueryOld(prompt, replies.dating)]
        u == OldAllUsers(Gathered, fs.users, lim, failAt)
        e == OldAllFind(u, "events", "events", fs.events, lim, failAt)
        d == OldAllFind(e, "dating", "datings", fs.dating, lim, failAt)
        pe == AllEventsPopulated(d, populate, "older", failAt)
        pd == AllDatingPopulated(pe, populate, "older", failAt)
    IN  AllOut(pd, lim, fs)

\* -------------------------------------------------------------- MCP tools
\* throw new McpError(ErrorCode.InternalError, `Error executing tool ...:
\* ${error.message}`): the tool call fails (status 500 here) and the error's
\* message is part of what the caller gets.
McpFailure ==
    Obj(<< <<"error", Str("Error executing tool")>>, <<"message", Str("error.message")>> >>)

\* The text of a tool result: { results, count, query, populated }.
McpBody(results, query, populated) ==
    Obj(<< <<"results", Arr(results)>>, <<"count", Num(Len(results))>>,
           <<"query", query>>, <<"populated", populated>> >>)

\* const { populate = false } = args
McpPopulate(arg) == Truthy(OrDefault(arg, Bool(FALSE)))

\* search_users (MCP): the query is always run as a users filter.
McpSearchUsersRun(call, limit, failAt) ==
    LET lim == ClampLimit(limit, 100)
        parsed == parsePromptToMongoQuery(call.prompt, call.reply)
        fs == [NoFilters EXCEPT !.users = parsed]
        u == FindStage("users", parsed, Projection, lim, 0, failAt)
    IN  IF ~u.ok THEN Out(500, McpFailure, u.reads, lim, fs)
        ELSE Out(200, McpBody(u.docs, convertDateFromString(parsed), Undef),
                 u.reads, lim, fs)

\* event.participant_ids && Array.isArray(event.participant_ids)
HasIdArray(ev) == Get(ev, "participant_ids").t = "arr"

\* The positions of the events that have a participant_ids array.
WithIdArray(docs) == SelectSeq([i \in 1..Len(docs) |-> i], LAMBDA i : HasIdArray(docs[i]))

\* search_events / search_all (MCP), "if (populate) for (let event of
\* results)": one users read per event that has a participant_ids array;
\* participantDetails is what that read returned.
McpPopulateEvents(docs, excl, n, failAt) ==
    LET readers == WithIdArray(docs)
        rds == [k \in 1..Len(readers) |->
                  Read("users", InIds(ParticipantIds(docs[readers[k]])), 0)]
        failed == failAt > n /\ failAt <= n + Len(readers)
        details(ev) == Arr(Find("users", InIds(ParticipantIds(ev)), excl))
    IN  IF failed THEN [ok |-> FALSE, docs |-> docs, reads |-> SubSeq(rds, 1, failAt - n)]
        ELSE [ok |-> TRUE, reads |-> rds,
              docs |-> [i \in 1..Len(docs) |->
                          IF HasIdArray(docs[i])
                          THEN Put(docs[i], "participantDetails", details(docs[i]))
                          ELSE docs[i]]]

\* collection.findOne({ _id: id }, { projection }): the first match or null.
FindOne(name, id, excl) ==
    LET hit == Find(name, Obj(<< <<"_id", id>> >>), excl)
    IN  IF Len(hit) = 0 THEN Null ELSE hit[1]

\* profile[key] = await findOne(...) when profile[idKey] is set.
WithDetail(profile, idKey, key, excl) ==
    IF Truthy(Get(profile, idKey))
    THEN Put(profile, key, FindOne("users", Get(profile, idKey), excl))
    ELSE profile

\* search_dating / search_all (MCP), "if (populate) for (let profile of
\* results)": one findOne per partner reference that is set.
McpPopulateDating(docs, excl, n, failAt) ==
    LET refs == Flatten([i \in 1..Len(docs) |-> PartnerIds(docs[i])])
        rds == [k \in 1..Len(refs) |-> Read("users", Obj(<< <<"_id", refs[k]>> >>), 1)]
        failed == failAt > n /\ failAt <= n + Len(refs)
    IN  IF failed THEN [ok |-> FALSE, docs |-> docs, reads |-> SubSeq(rds, 1, failAt - n)]
        ELSE [ok |-> TRUE, reads |-> rds,
              docs |-> [i \in 1..Len(docs) |->
                          WithDetail(WithDetail(docs[i], "Male_id", "maleDetails", excl),
                                     "Female_id", "femaleDetails", excl)]]

\* search_events (MCP).
McpSearchEventsRun(call, limit, arg, failAt) ==
    LET populate == McpPopulate(arg)
        lim == ClampLimit(limit, 100)
        parsed == parsePromptToMongoQuery(call.prompt, call.reply)
        fs == [NoFilters EXCEPT !.events = parsed]
        e == FindStage("events", parsed, {}, lim, 0, failAt)
        p == IF populate THEN McpPopulateEvents(e.docs, Projection, Len(e.reads), failAt)
             ELSE Skip(e.docs)
    IN  IF ~e.ok THEN Out(500, McpFailure, e.reads, lim, fs)
        ELSE IF ~p.ok THEN Out(500, McpFailure, e.reads \o p.reads, lim, fs)
        ELSE Out(200, McpBody(p.docs, convertDateFromString(parsed), Bool(populate)),
                 e.reads \o p.reads, lim, fs)

\* search_dating (MCP).
McpSearchDatingRun(call, limit, arg, failAt) ==
    LET populate == McpPopulate(arg)
        lim == ClampLimit(limit, 100)
        parsed == parsePromptToMongoQuery(call.prompt, call.reply)
        fs == [NoFilters EXCEPT !.dating = parsed]
        d == FindStage("datings", parsed, {}, lim, 0, failAt)
        p == IF populate THEN McpPopulateDating(d.docs, Projection, Len(d.reads), failAt)
             ELSE Skip(d.docs)
    IN  IF ~d.ok THEN Out(500, McpFailure, d.reads, lim, fs)
        ELSE IF ~p.ok THEN Out(500, McpFailure, d.reads \o p.reads, lim, fs)
        ELSE Out(200, McpBody(p.docs, convertDateFromString(parsed), Bool(populate)),
                 d.reads \o p.reads, lim, fs)

\* The text of search_all's result.
McpAllBody(us, es, ds, fs, populated) ==
    Obj(<< <<"totalCount", Num(Len(us) + Len(es) + Len(ds))>>,
           <<"results", Obj(<< <<"users", Section(us)>>, <<"events", Section(es)>>,
                               <<"dating", Section(ds)>> >>)>>,
           <<"queries", Obj(<< <<"users", fs.users>>, <<"events", fs.events>>,
                               <<"dating", fs.dating>> >>)>>,
           <<"populated", populated>> >>)

\* search_all (MCP): the three finds are issued together (Promise.all); a
\* conversion that throws does so before any of them is issued.
McpSearchAllRun(prompt, replies, limit, arg, failAt) ==
    LET populate == McpPopulate(arg)
        lim == ClampLimit(limit, 30)
        fs == [users |-> parsePromptToMongoQuery(prompt, replies.users),
               events |-> parsePromptToMongoQuery(prompt, replies.events),
               dating |-> parsePromptToMongoQuery(prompt, replies.dating)]
        u == FindStage("users", fs.users, Projection, lim, 0, failAt)
        e == FindStage("events", fs.events, {}, lim, 1, failAt)
        d == FindStage("datings", fs.dating, {}, lim, 2, failAt)
        threw == \E f \in {fs.users, fs.events, fs.dating} : convertDateFromString(f) = Thrown
        rd3 == u.reads \o e.reads \o d.reads
        pe == IF populate THEN McpPopulateEvents(e.docs, Projection, 3, failAt)
              ELSE Skip(e.docs)
        pd == IF populate THEN McpPopulateDating(d.docs, Projection, 3 + Len(pe.reads), failAt)
              ELSE Skip(d.docs)
    IN  IF threw THEN Out(500, McpFailure, <<>>, lim, fs)
        ELSE IF ~(u.ok /\ e.ok /\ d.ok) THEN Out(500, McpFailure, rd3, lim, fs)
        ELSE IF ~pe.ok THEN Out(500, McpFailure, rd3 \o pe.reads, lim, fs)
        ELSE IF ~pd.ok THEN Out(500, McpFailure, rd3 \o pe.reads \o pd.reads, lim, fs)
        ELSE Out(200, McpAllBody(u.docs, pe.docs, pd.docs, fs, Bool(populate)),
                 rd3 \o pe.reads \o pd.reads, lim, fs)

\* ----------------------------------------------------------- debug server
Max(a, b) == IF a >= b THEN a ELSE b

\* part_000 runMongoQuery: Math.min(Math.max(limit, 1), 1000).
CappedLimit(limit) == Min(Max(limit, 1), 1000)

\* part_000 runMongoQuery: "If the query is an empty object {}, we return
\* nothing"; !mongoQuery || Object.keys(mongoQuery).length === 0.
IsEmptyQuery(mongoQuery) == ~Truthy(mongoQuery) \/ (mongoQuery.t = "obj" /\ Len(mongoQuery.v) = 0)

\* Number.isInteger(body.limit) ? body.limit : 10
DebugLimit(limit) == IF limit.t = "num" THEN limit.v ELSE 10

\* collectionMap[searchType] || "users"
DebugCollection(searchType) ==
    IF searchType \in {"events", "users", "datings"} THEN searchType ELSE "users"

\* res.status(500).json({ error: "Internal server error", details: err.message })
DebugFailure ==
    Obj(<< <<"error", Str("Internal server error")>>, <<"details", Str("err.message")>> >>)

\* The body of a /search/debug answer.
DebugBody(coll, query, docs, note) ==
    Obj(<< <<"searchType", Str(coll)>>, <<"query", query>>, <<"count", Num(Len(docs))>>,
           <<"results", Arr(docs)>>, <<"note", note>> >>)

\* Array.isArray(event.participant_ids) && event.participant_ids.length > 0
HasSomeIds(ev) == HasIdArray(ev) /\ Len(ParticipantIds(ev)) > 0

\* "Enrich event results": one unprojected users read per event with
\* participants; a read that fails leaves that event with participants [].
DebugEnrichEvents(docs, n, failAt) ==
    LET readers == SelectSeq(WithIdArray(docs), LAMBDA i : HasSomeIds(docs[i]))
        rds == [k \in 1..Len(readers) |->
                  Read("users", InIds(ParticipantIds(docs[readers[k]])), 0)]
        failedDoc == IF failAt > n /\ failAt <= n + Len(readers)
                     THEN readers[failAt - n] ELSE 0
        participants(i) == IF HasSomeIds(docs[i]) /\ i # failedDoc
                           THEN Arr(Find("users", InIds(ParticipantIds(docs[i])), {}))
                           ELSE Arr(<<>>)
    IN  [docs |-> [i \in 1..Len(docs) |-> Put(docs[i], "participants", participants(i))],
         reads |-> rds]

\* The partner references of record i, in the order they are read.
RefsOf(i, doc) ==
    (IF Truthy(Get(doc, "Male_id")) THEN <<[i |-> i, key |-> "Male_id"]>> ELSE <<>>)
        \o (IF Truthy(Get(doc, "Female_id")) THEN <<[i |-> i, key |-> "Female_id"]>> ELSE <<>>)

\* "Enrich dating results": one unprojected findOne per partner reference;
\* a findOne that fails ends the enrichment of that record only.
DebugEnrichDating(docs, n, failAt) ==
    LET refs == Flatten([i \in 1..Len(docs) |-> RefsOf(i, docs[i])])
        f == IF failAt > n /\ failAt <= Len(refs) + n THEN failAt - n ELSE 0
        skipped(k) == f # 0 /\ k = f + 1 /\ refs[k].i = refs[f].i
        issued == SelectSeq([k \in 1..Len(refs) |-> k], LAMBDA k : ~skipped(k))
        got(i, key) == Truthy(Get(docs[i], key))
                           /\ ~(f # 0 /\ refs[f].i = i
                                  /\ (key = "Female_id" \/ refs[f].key = "Male_id"))
        male(i) == IF got(i, "Male_id")
                   THEN Put(docs[i], "male", FindOne("users", Get(docs[i], "Male_id"), {}))
                   ELSE docs[i]
        both(i) == IF got(i, "Female_id")
                   THEN Put(male(i), "female", FindOne("users", Get(docs[i], "Female_id"), {}))
                   ELSE male(i)
    IN  [docs |-> [i \in 1..Len(docs) |-> both(i)],
         reads |-> [k \in 1..Len(issued) |->
                      Read("users", Obj(<< <<"_id", Get(docs[refs[issued[k]].i],
                                                        refs[issued[k]].key)>> >>), 1)]]

\* POST /search/debug (debug server, part_000 lines 438-587), with the
\* search type given in the body.
SearchDebugRun(call, searchType, limit, failAt) ==
    LET lim == CappedLimit(DebugLimit(limit))
        coll == DebugCollection(searchType)
        parsed == parsePromptToMongoQueryDebug(call.prompt, call.reply)
        fs == [NoFilters EXCEPT ![IF coll = "datings" THEN "dating" ELSE coll] = parsed]
        mongoQuery == convertDateFromString(parsed)
        r1 == Read(coll, mongoQuery, lim)
        results == Limit(Find(coll, mongoQuery, {}), lim)
        en == IF coll = "events" /\ Len(results) > 0 THEN DebugEnrichEvents(results, 1, failAt)
              ELSE IF coll = "datings" /\ Len(results) > 0
              THEN DebugEnrichDating(results, 1, failAt)
              ELSE [docs |-> results, reads |-> <<>>]
    IN  IF ~Truthy(call.prompt)
        THEN Out(400, Obj(<< <<"error", Str("Missing 'query' in request body.")>> >>),
                 <<>>, lim, NoFilters)
        ELSE IF mongoQuery = Thrown THEN Out(500, DebugFailure, <<>>, lim, fs)
        ELSE IF Truthy(Get(mongoQuery, "__ambiguous"))
        THEN Out(200, DebugBody(coll, mongoQuery, <<>>,
                                Str("Ambiguous query returned by model. Please pick one alternative.")),
                 <<>>, lim, fs)
        ELSE IF IsEmptyQuery(mongoQuery)
        THEN Out(200, DebugBody(coll, mongoQuery, <<>>, Undef), <<>>, lim, fs)
        ELSE IF failAt = 1 \/ Rejected(mongoQuery) THEN Out(500, DebugFailure, <<r1>>, lim, fs)
        ELSE Out(200, DebugBody(coll, mongoQuery, en.docs, Undef), <<r1>> \o en.reads, lim, fs)

\* ------------------------------------------------------------ store data
\* The number of users of the small store.
NUsers == 3

\* The number of users of the big store: one more than the ceiling of the
\* combined search.
BigUsers == 31

\* The number of participants of the big event.
BigEvent == 12

\* An identifier no user has.
Dangling == 999

User(i) ==
    Obj(<< <<"_id", Oid(i)>>, <<"Name", Str("user")>>,
           <<"Location", Str(IF i % 2 = 1 THEN "Jaipur" ELSE "Delhi")>>,
           <<"Salary", Num(600000)>>, <<"email", Str("user@example.com")>> >>)

Users(n) == [i \in 1..n |-> User(i)]

\* An event whose participant list repeats a user and holds a dangling
\* identifier.
E1 ==
    Obj(<< <<"_id", Oid(201)>>, <<"Event_type", Str("Tech")>>,
           <<"Event_date", DateV(20251115)>>,
           <<"participant_ids", Arr(<<Oid(1), Oid(Dangling), Oid(1), Oid(2)>>)>> >>)

\* An event without participant list.
E2 ==
    Obj(<< <<"_id", Oid(202)>>, <<"Event_type", Str("Music")>>,
           <<"Event_date", DateV(20251201)>> >>)

\* An event with an empty participant list.
E3 ==
    Obj(<< <<"_id", Oid(203)>>, <<"Event_type", Str("Tech")>>,
           <<"Event_date", DateV(20251220)>>, <<"participant_ids", Arr(<<>>)>> >>)

EBig ==
    Obj(<< <<"_id", Oid(204)>>, <<"Event_type", Str("Tech")>>,
           <<"Event_date", DateV(20251116)>>,
           <<"participant_ids", Arr([i \in 1..BigEvent |-> Oid(i)])>> >>)

D1 ==
    Obj(<< <<"_id", Oid(301)>>, <<"Dating_location", Str("Jaipur")>>,
           <<"Male_id", Oid(1)>>, <<"Female_id", Oid(2)>> >>)

\* A record whose Female_id is dangling.
D2 ==
    Obj(<< <<"_id", Oid(302)>>, <<"Dating_location", Str("Delhi")>>,
           <<"Male_id", Oid(3)>>, <<"Female_id", Oid(Dangling - 1)>> >>)

\* A record without Male_id.
D3 ==
    Obj(<< <<"_id", Oid(303)>>, <<"Dating_location", Str("Jaipur")>>,
           <<"Female_id", Oid(2)>> >>)

\* A database whose users collection is empty and whose other collections do
\* not exist.
EmptyStore == [users |-> <<>>]

SmallStore == [users |-> Users(NUsers), events |-> <<E1, E2, E3>>, datings |-> <<D1, D2, D3>>]

BigStore == [users |-> Users(BigUsers), events |-> <<EBig, E1>>, datings |-> <<D1>>]

\* A database whose dating records live in the collection "dating", the name
\* the third debug server uses, and that has no collection "datings".
AltStore == [users |-> Users(NUsers), events |-> <<E1>>, dating |-> <<D1, D2, D3>>]

\* The deployments: PII flag, OpenAI client, store content.
Deployments ==
    {[pii |-> p, ai |-> TRUE, store |-> st] : p \in BOOLEAN, st \in {EmptyStore, SmallStore}}
        \cup {[pii |-> FALSE, ai |-> FALSE, store |-> SmallStore],
              [pii |-> FALSE, ai |-> TRUE, store |-> BigStore],
              [pii |-> FALSE, ai |-> TRUE, store |-> AltStore]}

\* ---------------------------------------------------------------- inputs
Marker(s) == Obj(<< <<"$dateFromString", Obj(<< <<"dateString", Str(s)>>,
                                                 <<"timezone", Str("UTC")>> >>)>> >>)

November(field) ==
    Obj(<< <<field, Obj(<< <<"$gte", Marker("2025-11-01T00:00:00Z")>>,
                           <<"$lte", Marker("2025-11-30T23:59:59Z")>> >>)>> >>)

QAll == Obj(<<>>)

QNoMatch == NoMatch("intentionally_no_match")

QLocation == Obj(<< <<"Location", Str("Jaipur")>> >>)

QUnknownOp == Obj(<< <<"Location", Obj(<< <<"$unknown", Num(1)>> >>)>> >>)

QAmbiguous ==
    Obj(<< <<"__ambiguous", Bool(TRUE)>>,
           <<"alternatives", Arr(<<November("Event_date"), QLocation>>)>> >>)

ForeignKey(coll, criteria) ==
    Obj(<< <<"__foreign_key_query", Str(coll)>>, <<"__criteria", criteria>> >>)

QEventType == Obj(<< <<"Event_type", Str("Tech")>> >>)

QNullMarker == Obj(<< <<"Event_date", Obj(<< <<"$dateFromString", Null>> >>)>> >>)

QDatingLocation == Obj(<< <<"Dating_location", Str("Jaipur")>> >>)

Failures == {Reply("error", Undef), Reply("empty", Undef), Reply("garbage", Undef)}

Json1(qs) == {Reply("json", q) : q \in qs}

\* What the translator may give for each collection hint.
UsersReplies ==
    Failures \cup Json1({QAll, QNoMatch, QLocation, QUnknownOp, QAmbiguous,
                         ForeignKey("events", QEventType),
                         ForeignKey("events", November("Event_date")),
                         ForeignKey("dating", QAll),
                         ForeignKey("orders", QAll),
                         ForeignKey("events", QNullMarker),
                         Obj(<< <<"__foreign_key_query", Str("events")>> >>),
                         ForeignKey("events", Obj(<< <<"Event_type", Str("Music")>> >>)),
                         Obj(<< <<"__criteria", QEventType>> >>)})

EventsReplies ==
    Failures \cup Json1({QAll, QNoMatch, QEventType, November("Event_date"), QAmbiguous,
                         QNullMarker})

DatingReplies == Failures \cup Json1({QAll, QNoMatch, QDatingLocation})

\* The replies of a combined search, one per hint.
AllReplies ==
    {[users |-> u, events |-> e, dating |-> d] :
        u \in {Reply("garbage", Undef)}
                 \cup Json1({QAll, QNoMatch, QLocation, ForeignKey("events", QEventType)}),
        e \in {Reply("error", Undef)} \cup Json1({QAll, QEventType}),
        d \in {Reply("empty", Undef)} \cup Json1({QAll, QDatingLocation})}

NoReply == Reply("none", Undef)

NoReplies == [users |-> NoReply, events |-> NoReply, dating |-> NoReply]

Prompt == Str("find them")

\* A request's text with the translator's reply to it; the empty text never
\* reaches the translator.
Calls(replies) ==
    {[prompt |-> Prompt, reply |-> r] : r \in replies} \cup {[prompt |-> Str(""), reply |-> NoReply]}

Limits == {Undef, Num(0), Num(2), Num(-12), Num(150), Num(-150), Str("abc")}

\* ?populate=... of the HTTP endpoints; the populate argument of the tools.
Params == {Undef, Str("true"), Str("false")}

Args == {Undef, Bool(TRUE), Bool(FALSE)}

\* The database operation that fails, at most the MaxFail-th (0: none).
MaxFail == 2

FailAts == 0..MaxFail

\* ------------------------------------------------------------- behaviour
NoRequest ==
    [op |-> "none", prompt |-> Undef, replies |-> NoReplies, limit |-> Undef,
     populate |-> Undef, searchType |-> "", failAt |-> 0,
     path |-> "", auth |-> NoHeader, parsed |-> TRUE]

NoResponse == [status |-> 0, body |-> Undef]

\* The clients whose requests may overlap.
Clients == {"a", "b"}

\* A handler invocation: its request, the translator calls in flight
\* (pending), the queries they returned, the database operations the handler
\* issues on the store as the request found it (plan) with the positions of
\* those in flight (flying) and completed (done), the response with the
\* number of times one was sent, and the response the request gets when it
\* is handled at once on the store as it found it (alone).
NoTask ==
    [pc |-> "idle", req |-> NoRequest, pending |-> {}, filters |-> NoFilters,
     plan |-> <<>>, flying |-> {}, done |-> {}, res |-> NoResponse, sent |-> 0,
     alone |-> NoResponse]

\* The server after startup: flag, client and store are fixed from here on.
Init ==
    /\ \E d \in Deployments :
          /\ ALLOW_PII = d.pii
          /\ openai = d.ai
          /\ db = d.store
    /\ phase = "idle"
    /\ req = NoRequest
    /\ filters = NoFilters
    /\ reads = <<>>
    /\ l = 0
    /\ res = NoResponse
    /\ task = [c \in Clients |-> NoTask]

\* A store whose users are lost once a request has read it.
StoreLosingUsers(store, rds) ==
    IF rds = <<>> THEN store ELSE [store EXCEPT !.users = <<>>]

\* A store whose events are lost once a request has read it.
StoreLosingEvents(store, rds) ==
    IF rds = <<>> THEN store ELSE [store EXCEPT !.events = <<>>]

\* The store after the database operations of a request: every operation the
\* handlers issue is a find(...).toArray() or a findOne(...), so the store is
\* what it was.
StoreAfter(store, rds) == store

\* A handler ran to its response (handlers start when the server is idle).
Answer(request, out) ==
    /\ phase' = "responded"
    /\ req' = request
    /\ filters' = out.filters
    /\ reads' = out.reads
    /\ l' = out.l
    /\ res' = [status |-> out.status, body |-> out.body]
    /\ db' = StoreAfter(db, out.reads)
    /\ UNCHANGED <<ALLOW_PII, openai, task>>

\* The request of a single-collection search.
Request(op, hint, call, limit, populate, failAt) ==
    [NoRequest EXCEPT !.op = op, !.prompt = call.prompt,
                      !.replies = [NoReplies EXCEPT ![hint] = call.reply],
                      !.limit = limit, !.populate = populate, !.failAt = failAt]

\* The request of a combined search.
RequestAll(op, replies, limit, populate, failAt) ==
    [NoRequest EXCEPT !.op = op, !.prompt = Prompt, !.replies = replies,
                      !.limit = limit, !.populate = populate, !.failAt = failAt]

\* The Authorization headers of the requests.
Headers ==
    {NoHeader, Header("Bearer", 1, API_KEY), Header("bearer", 2, API_KEY),
     Header("", 0, API_KEY), Header("Bearer", 1, "wrong"), Header("Bearer", 1, ""),
     Header("Basic", 1, API_KEY)}

\* The routes of index.js behind the middleware.
CurrentRoutes == {"/search/users", "/search/events", "/search/dating", "/search/all"}

\* The request as it arrived at the Express application of index.js.
Sent(path, auth, request) == [request EXCEPT !.path = path, !.auth = auth]

SearchUsers ==
    /\ phase = "idle"
    /\ \E call \in Calls(UsersReplies), limit \in Limits, failAt \in FailAts,
          auth \in Headers :
           /\ ApiKey("/search/users", auth) = "next"
           /\ Answer(Sent("/search/users", auth, Request("/search/users", "users", call, limit, Undef, failAt)),
                     SearchUsersRun(call, limit, failAt))

\* The second text is the display name of users of the store.
SearchEvents ==
    /\ phase = "idle"
    /\ \E call \in Calls(EventsReplies)
                        \cup {[prompt |-> Str("User"),
                               reply |-> Reply("json", Obj(<< <<"Event_type", Str("Music")>> >>))]},
          limit \in Limits, param \in Params, failAt \in FailAts,
          auth \in Headers :
           /\ ApiKey("/search/events", auth) = "next"
           /\ Answer(Sent("/search/events", auth, Request("/search/events", "events", call, limit, param, failAt)),
                     SearchEventsRun(call, limit, param, failAt))

SearchDating ==
    /\ phase = "idle"
    /\ \E call \in Calls(DatingReplies)
                        \cup {[prompt |-> Str("User"), reply |-> Reply("json", QDatingLocation)]},
          limit \in Limits, param \in Params, failAt \in FailAts,
          auth \in Headers :
           /\ ApiKey("/search/dating", auth) = "next"
           /\ Answer(Sent("/search/dating", auth, Request("/search/dating", "dating", call, limit, param, failAt)),
                     SearchDatingRun(call, limit, param, failAt))

SearchAll ==
    /\ phase = "idle"
    /\ \E replies \in AllReplies, limit \in Limits, param \in Params, failAt \in FailAts,
          auth \in Headers :
           /\ ApiKey("/search/all", auth) = "next"
           /\ Answer(Sent("/search/all", auth, RequestAll("/search/all", replies, limit, param, failAt)),
                     SearchAllRun(Prompt, replies, limit, param, failAt))

OldSearchUsers ==
    /\ phase = "idle"
    /\ \E call \in Calls(UsersReplies), limit \in Limits, failAt \in FailAts,
          auth \in Headers :
           /\ ApiKey("/search/users", auth) = "next"
           /\ Answer(Sent("/search/users", auth, Request("old /search/users", "users", call, limit, Undef, failAt)),
                     OldSearchUsersRun(call, limit, failAt))

OldSearchAll ==
    /\ phase = "idle"
    /\ \E replies \in AllReplies, limit \in Limits, param \in Params, failAt \in FailAts,
          auth \in Headers :
           /\ ApiKey("/search/all", auth) = "next"
           /\ Answer(Sent("/search/all", auth, RequestAll("old /search/all", replies, limit, param, failAt)),
                     OldSearchAllRun(Prompt, replies, limit, param, failAt))

McpSearchUsers ==
    /\ phase = "idle"
    /\ \E call \in Calls(UsersReplies), limit \in Limits, failAt \in FailAts :
           Answer(Request("search_users", "users", call, limit, Undef, failAt),
                  McpSearchUsersRun(call, limit, failAt))

McpSearchEvents ==
    /\ phase = "idle"
    /\ \E call \in Calls(EventsReplies), limit \in Limits, arg \in Args, failAt \in FailAts :
           Answer(Request("search_events", "events", call, limit, arg, failAt),
                  McpSearchEventsRun(call, limit, arg, failAt))

McpSearchDating ==
    /\ phase = "idle"
    /\ \E call \in Calls(DatingReplies), limit \in Limits, arg \in Args, failAt \in FailAts :
           Answer(Request("search_dating", "dating", call, limit, arg, failAt),
                  McpSearchDatingRun(call, limit, arg, failAt))

McpSearchAll ==
    /\ phase = "idle"
    /\ \E replies \in AllReplies, limit \in Limits, arg \in Args, failAt \in FailAts :
           Answer(RequestAll("search_all", replies, limit, arg, failAt),
                  McpSearchAllRun(Prompt, replies, limit, arg, failAt))

\* The hint under which a debug search's reply is filed.
DebugHint(searchType) == IF searchType = "datings" THEN "dating" ELSE searchType

DebugReplies(searchType) ==
    CASE searchType = "events" -> EventsReplies
      [] searchType = "datings" -> DatingReplies
      [] OTHER -> UsersReplies

SearchDebug ==
    /\ phase = "idle"
    /\ \E searchType \in {"users", "events", "datings"}, limit \in Limits, failAt \in FailAts :
           \E call \in Calls(DebugReplies(searchType)) :
               Answer([Request("/search/debug", DebugHint(searchType), call, limit, Undef, failAt)
                          EXCEPT !.searchType = searchType],
                      SearchDebugRun(call, searchType, limit, failAt))

\* index.js:43 and 367-378: a request that does not get past express.json()
\* (its body is not JSON: 400 from the parser's error) or past the API key
\* middleware (401) is answered there and reaches no route.
ApiKeyMiddleware ==
    /\ phase = "idle"
    /\ \E path \in CurrentRoutes \cup {"/nowhere"}, auth \in Headers, parsed \in BOOLEAN :
           /\ ~parsed \/ ApiKey(path, auth) = "401"
           /\ Answer([Sent(path, auth, NoRequest) EXCEPT !.op = "middleware", !.parsed = parsed],
                     IF parsed THEN Out(401, Unauthorized, <<>>, 0, NoFilters)
                     ELSE Out(400, Undef, <<>>, 0, NoFilters))

\* index.js:564.
Health ==
    /\ phase = "idle"
    /\ \E auth \in Headers :
           /\ ApiKey("/health", auth) = "next"
           /\ Answer([Sent("/health", auth, NoRequest) EXCEPT !.op = "/health"],
                     Out(200, Obj(<< <<"ok", Bool(TRUE)>> >>), <<>>, 0, NoFilters))

\* The response is out; the server waits for the next request.
NextRequest ==
    /\ phase = "responded"
    /\ phase' = "idle"
    /\ req' = NoRequest
    /\ filters' = NoFilters
    /\ reads' = <<>>
    /\ l' = 0
    /\ res' = NoResponse
    /\ UNCHANGED <<ALLOW_PII, openai, db, task>>

Next ==
    \/ SearchUsers
    \/ SearchEvents
    \/ SearchDating
    \/ SearchAll
    \/ OldSearchUsers
    \/ OldSearchAll
    \/ McpSearchUsers
    \/ McpSearchEvents
    \/ McpSearchDating
    \/ McpSearchAll
    \/ SearchDebug
    \/ ApiKeyMiddleware
    \/ Health
    \/ NextRequest

Spec == Init /\ [][Next]_vars

\* ================================================================ claims
\* What the claims below read off a run.
Responded == phase = "responded"

Succeeded == Responded /\ res.status = 200

CurrentHttp == {"/search/users", "/search/events", "/search/dating", "/search/all"}

McpTools == {"search_users", "search_events", "search_dating", "search_all"}

OlderCopy == {"old /search/users", "old /search/all"}

Combined == {"/search/all", "old /search/all", "search_all"}

Hints == {"users", "events", "dating"}

\* The hints a request consults the translator for.
HintsOf(request) ==
    CASE request.op \in Combined -> Hints
      [] request.op \in {"/search/users", "old /search/users", "search_users"} -> {"users"}
      [] request.op \in {"/search/events", "search_events"} -> {"events"}
      [] request.op \in {"/search/dating", "search_dating"} -> {"dating"}
      [] request.op = "/search/debug" -> {DebugHint(request.searchType)}
      [] OTHER -> {}

\* The collection a hint stands for.
Target(h) == IF h = "dating" THEN "datings" ELSE h

\* The records the response holds for hint h.
Page(h) ==
    IF req.op \in Combined
    THEN OrEmpty(Get(Get(Get(res.body, "results"), h), "data"))
    ELSE OrEmpty(Get(res.body, "results"))

\* The count the response states for hint h.
Count(h) ==
    IF req.op \in Combined
    THEN Get(Get(Get(res.body, "results"), h), "count")
    ELSE Get(res.body, "count")

\* x is the record of a user of the store.
IsIdentity(x) ==
    HasKey(x, "_id") /\ \E i \in 1..Len(db.users) : Get(db.users[i], "_id") = Get(x, "_id")

RECURSIVE Exposed(_)
\* Some Identity record inside x carries Salary or email.
Exposed(x) ==
    CASE x.t = "arr" -> \E i \in 1..Len(x.v) : Exposed(x.v[i])
      [] x.t = "obj" ->
            \/ IsIdentity(x) /\ (HasKey(x, "Salary") \/ HasKey(x, "email"))
            \/ \E i \in 1..Len(x.v) : Exposed(x.v[i][2])
      [] OTHER -> FALSE

\* The redaction the specification asks for.
Redacted(u) == IF ALLOW_PII THEN u ELSE Without(u, {"Salary", "email"})

\* C1: with the PII flag disabled, no Identity record in the results of a
\* search of the server (HTTP endpoint or MCP tool, current or older copy;
\* returned directly, through the foreign-key redirect or as a populated
\* sub-document) carries Salary or email.
C1_NoSalaryNoEmail ==
    (Responded /\ ~ALLOW_PII /\ req.op \in CurrentHttp \cup McpTools \cup OlderCopy)
        => ~Exposed(Get(res.body, "results"))

\* The tags of the no-match queries the server substitutes or is told to use.
SentinelTags ==
    {"intentionally_no_match", "intentionally_no_match_on_empty_prompt",
     "intentionally_no_match_on_api_error", "intentionally_no_match_on_empty_response",
     "intentionally_no_match_on_parse_error"}

IsNoMatch(f) == \E tag \in SentinelTags : f = NoMatch(tag)

ExpectedLimit(limit, ceiling) ==
    Min(IF limit.t = "num" /\ limit.v > 0 THEN limit.v ELSE 10, ceiling)

\* The ceiling of the specification: 30 for combined search, 100 otherwise.
Ceiling(op) == IF op \in Combined THEN 30 ELSE 100

\* C3: for every search operation and every requested limit, the effective
\* limit is min(requested-or-default, ceiling), the default 10 replacing a
\* non-numeric, zero or negative request, so it lies between 1 and the
\* ceiling (100 for single-collection search, 30 for combined search).
C3_EffectiveLimit ==
    Responded
        => /\ l = ExpectedLimit(req.limit, Ceiling(req.op))
           /\ l \in 1..Ceiling(req.op)

\* C4: every result page of a successful search holds at most the clamped
\* maximum: 100 records for a single-collection search, 30 records per
\* collection for combined search.
C4_PageBound ==
    \A h \in HintsOf(req) : Succeeded => Len(Page(h)) <= Ceiling(req.op)

\* C5: when the Translated Query is the empty object {}, the search executes
\* it against the full target collection and returns the collection's
\* records up to the limit; the collection is never skipped and {} is never
\* treated as no-match, on any endpoint.
C5_EmptyQueryRuns ==
    \A h \in HintsOf(req) :
        (Succeeded /\ filters[h] = Obj(<<>>))
            => /\ \E i \in 1..Len(reads) :
                     reads[i].coll = Target(h) /\ reads[i].filter = Obj(<<>>)
               /\ Len(Page(h)) = Len(Limit(Collection(Target(h)), l))

RECURSIVE Carries(_, _)
\* The value y occurs somewhere inside x.
Carries(x, y) ==
    \/ x = y
    \/ x.t = "arr" /\ \E i \in 1..Len(x.v) : Carries(x.v[i], y)
    \/ x.t = "obj" /\ \E i \in 1..Len(x.v) : Carries(x.v[i][2], y)

\* C6: when the Translated Query carries the ambiguous sentinel with
\* alternatives, the search executes no database query and answers with
\* success, count 0, an empty result list, an explanatory flag, and the
\* alternatives exactly as the translator returned them.
C6_AmbiguousReturned ==
    \A h \in HintsOf(req) :
        (Responded /\ Truthy(Get(filters[h], "__ambiguous")))
            => /\ reads = <<>>
               /\ res.status = 200
               /\ Count(h) = Num(0)
               /\ Page(h) = <<>>
               /\ Truthy(Get(res.body, "note")) \/ Truthy(Get(res.body, "ambiguous"))
               /\ Carries(res.body, Json(Get(req.replies[h].json, "alternatives")))

\* C7: any failure of the translator (the call fails, the output is empty,
\* the output is not parseable JSON) makes parsePromptToMongoQuery return a
\* no-match query, and the failure alone never fails the request.
C7_FailureIsNoMatch ==
    \A h \in HintsOf(req) :
        (Responded /\ openai /\ Truthy(req.prompt) /\ req.replies[h] \in Failures)
            => /\ IsNoMatch(filters[h])
               /\ req.failAt = 0 => res.status = 200

\* The users the store holds for the identifiers ids, in collection order.
Referenced(ids) ==
    SelectSeq(db.users, LAMBDA u : \E k \in 1..Len(ids) : ids[k] = Get(u, "_id"))

\* The identifiers the secondary collection's matches of a redirect refer to.
RedirectIds(filter) ==
    LET criteria == convertDateFromString(Get(filter, "__criteria"))
    IN  IF Get(filter, "__foreign_key_query") = Str("events")
        THEN EventUserIds(Find("events", criteria, {}))
        ELSE DatingUserIds(Find("datings", criteria, {}))

\* The redirect of the request can be carried out.
Redirecting ==
    /\ Succeeded
    /\ req.op \in {"/search/users", "/search/all"}
    /\ req.failAt = 0
    /\ IsForeignKey(filters.users)
    /\ Get(filters.users, "__foreign_key_query") \in {Str("events"), Str("dating")}
    /\ convertDateFromString(Get(filters.users, "__criteria")) # Thrown

\* C8: when the users Translated Query carries a redirect marker and
\* criteria, the users returned are exactly redacted Identity records whose
\* identifier is referenced by a match of the date-normalized criteria in the
\* named secondary collection (identifiers unioned and de-duplicated), at
\* most the caller's clamped limit in number.
C8_Redirect ==
    Redirecting
        => LET users == Referenced(RedirectIds(filters.users))
               page == Page("users")
               n == Min(Len(users), ExpectedLimit(req.limit, Ceiling(req.op)))
           IN  /\ Len(page) = n
               /\ \A i \in 1..Len(page) : page[i] = Json(Redacted(users[i]))

\* The request asked for population (the debug search always populates).
Populating ==
    CASE req.op \in CurrentHttp -> PopulateDefaultTrue(req.populate)
      [] req.op \in McpTools -> McpPopulate(req.populate)
      [] req.op = "old /search/all" -> req.populate = Str("true")
      [] req.op = "/search/debug" -> TRUE
      [] OTHER -> FALSE

\* The identifiers the page of hint h refers to, de-duplicated.
PageIds(h) == IF h = "events" THEN EventUserIds(Page(h)) ELSE DatingUserIds(Page(h))

\* The reads of the users collection that population issued.
PopulateReads == SelectSeq(reads, LAMBDA r : r.coll = "users")

\* C9: populating a page of N records that refers to K >= 1 distinct
\* identifiers issues exactly one read of the users collection, for the
\* de-duplicated identifier set, whatever N is (stated for the
\* single-collection events and dating searches).
C9_OneBatchedRead ==
    \A h \in HintsOf(req) \ {"users"} :
        (Succeeded /\ req.op \notin Combined /\ Populating /\ Len(PageIds(h)) >= 1)
            => PopulateReads = <<Read("users", InIds(PageIds(h)), 0)>>

\* The slot the specification asks for: the redacted user when there is one,
\* otherwise a placeholder with the identifier only.
Slot(id) ==
    LET u == MapGet(db.users, id)
    IN  IF u = Undef THEN Placeholder(id) ELSE Json(Redacted(u))

\* C10: when an event page is populated, every event of the page is in the
\* output and its participants list has one entry per participant
\* identifier, in the same order: the redacted Identity record when one
\* exists, otherwise a placeholder carrying only the identifier.
C10_Placeholders ==
    (Succeeded /\ "events" \in HintsOf(req) /\ Populating /\ Page("events") # <<>>)
        => LET page == Page("events")
               matched == Find("events", convertDateFromString(filters.events), {})
           IN  /\ Len(page) = Len(Limit(matched, l))
               /\ \A i \in 1..Len(page) :
                     LET ids == ParticipantIds(page[i])
                         participants == Get(page[i], "participants")
                     IN  /\ participants.t = "arr"
                         /\ Len(participants.v) = Len(ids)
                         /\ \A k \in 1..Len(ids) : participants.v[k] = Slot(ids[k])

\* The two partner references of a dating record and the slots they populate.
PartnerSlots == {<<"Male_id", "Male">>, <<"Female_id", "Female">>}

\* C11: when a dating page is populated, each partner reference of a record
\* that is set but matches no Identity record is replaced by a placeholder
\* carrying only the original identifier; the slot is never omitted or left
\* undefined (stated for /search/dating and /search/all of the current
\* server).
C11_DanglingPartner ==
    (Succeeded /\ req.op \in {"/search/dating", "/search/all"} /\ Populating)
        => LET page == Page("dating")
           IN  \A i \in 1..Len(page) : \A s \in PartnerSlots :
                   LET id == Get(page[i], s[1])
                   IN  (Truthy(id) /\ MapGet(db.users, id) = Undef)
                           => /\ HasKey(page[i], s[2])
                              /\ Get(page[i], s[2]) = Placeholder(id)

\* The records the search fetched for hint h: the matches of the normalized
\* Translated Query up to the effective limit, when that read was issued.
Fetched(h) ==
    LET filter == convertDateFromString(filters[h])
    IN  IF \E i \in 1..Len(reads) : reads[i] = Read(Target(h), filter, l)
        THEN Limit(Find(Target(h), filter, {}), l)
        ELSE <<>>

\* The reads of the users collection issued without a limit: the reads of
\* population.
UnlimitedUsersReads == SelectSeq(reads, LAMBDA r : r.coll = "users" /\ r.limit = 0)

\* C12: when populate is false, an events or dating search (single or
\* combined) returns the fetched records unchanged, the reference
\* identifiers left as they are and no resolved sub-document added, and it
\* issues no population read of the users collection.
C12_NoPopulate ==
    \A h \in HintsOf(req) \ {"users"} :
        (Succeeded /\ ~Populating)
            => /\ Page(h) = Json(Arr(Fetched(h))).v
               /\ UnlimitedUsersReads = <<>>
               /\ req.op \notin Combined => PopulateReads = <<>>

\* C12: an events search with populate=false whose page holds an event with
\* participant identifiers, answered from the single read of the events.
C12_Witness ==
    /\ Succeeded
    /\ req.op = "/search/events"
    /\ req.populate = Str("false")
    /\ Len(reads) = 1
    /\ \E i \in 1..Len(Page("events")) :
           /\ Len(ParticipantIds(Page("events")[i])) > 1
           /\ ~HasKey(Page("events")[i], "participants")

\* Some database operation of the request failed: the one the fault hit, or
\* one whose filter the store rejects.
DatabaseFailed ==
    \E i \in 1..Len(reads) :
        \/ i = req.failAt
        \/ reads[i].filter.t = "obj" /\ Rejected(reads[i].filter)

\* C13: a database operation failure in a search request, the foreign-key
\* redirect path included, is answered with the generic server error and no
\* result payload; it is never answered as a success and no detail of the
\* failure is in the body.
C13_FailureIsServerError ==
    (Responded /\ DatabaseFailed)
        => /\ res.status = 500
           /\ res.body = ServerError

\* The run of the combined search the request asks for.
RunCombined(request) ==
    CASE request.op = "/search/all" ->
            SearchAllRun(request.prompt, request.replies, request.limit,
                         request.populate, request.failAt)
      [] request.op = "old /search/all" ->
            OldSearchAllRun(request.prompt, request.replies, request.limit,
                            request.populate, request.failAt)
      [] request.op = "search_all" ->
            McpSearchAllRun(request.prompt, request.replies, request.limit,
                            request.populate, request.failAt)

\* The section of hint h in the body of a combined search.
SectionOf(body, h) == Get(Get(body, "results"), h)

\* The translator failed for hint h and nothing else went wrong.
TranslatorFailed(h) ==
    /\ Responded
    /\ req.op \in Combined
    /\ openai
    /\ Truthy(req.prompt)
    /\ req.replies[h] \in Failures
    /\ req.failAt = 0

\* C14: in combined search a translator failure for one collection does not
\* block or fail the other two: the response has the status and, for the
\* other two collections, the sections of the same request with that
\* translation succeeding, and the failed collection's section is empty.
C14_TranslatorFailureIsolated ==
    \A h \in Hints :
        TranslatorFailed(h)
            => LET ok == RunCombined([req EXCEPT !.replies[h] = Reply("json", QAll)])
               IN  /\ res.status = ok.status
                   /\ res.status = 200
                         => /\ Count(h) = Num(0)
                            /\ Page(h) = <<>>
                            /\ \A g \in Hints \ {h} :
                                   SectionOf(res.body, g) = SectionOf(ok.body, g)

\* C14: a combined search whose users translation was unparseable while the
\* events and dating translations succeeded, answered with the events and
\* dating records and an empty users section.
C14_Witness ==
    /\ Succeeded
    /\ req.op = "/search/all"
    /\ TranslatorFailed("users")
    /\ req.replies.events.k = "json"
    /\ req.replies.dating.k = "json"
    /\ Page("users") = <<>>
    /\ Len(Page("events")) > 0
    /\ Len(Page("dating")) > 0

\* C17: no search operation (users, events, dating, combined, foreign-key
\* redirect, populate) writes to the store: over any sequence of requests
\* the users, events and dating collections stay what they were.
C17_StoreUnchanged == [][db' = db]_vars

\* C17: a combined search that redirected through the events and populated
\* both pages (five database operations) has answered over a store that
\* holds users, events and dating records.
C17_Witness ==
    /\ Succeeded
    /\ req.op = "/search/all"
    /\ IsForeignKey(filters.users)
    /\ Len(reads) >= 5
    /\ db = SmallStore

\* The names under which the code base keeps the dating records: "datings"
\* (index.js, the first two debug servers) and "dating" (the third).
PrimaryName == "datings"

AlternateName == "dating"

\* C19: when the dating collection does not exist under its primary name,
\* the search retries under the alternate known name: its page holds the
\* matches found there, up to the limit, and is empty only when the
\* alternate lookup finds nothing either.
C19_AlternateName ==
    (Succeeded /\ "dating" \in HintsOf(req) /\ PrimaryName \notin DOMAIN db)
        => Len(Page("dating"))
              = Len(Limit(Find(AlternateName, convertDateFromString(filters.dating), {}), l))

\* C20: for every Translated Query the servers normalize, applying
\* convertDateFromString to the normalized query returns it unchanged,
\* native dates the first application produced included.
C20_Idempotent ==
    \A h \in HintsOf(req) :
        (Responded /\ filters[h] # Undef)
            => LET once == convertDateFromString(filters[h])
               IN  once # Thrown => convertDateFromString(once) = once

\* ------------------------------------------------------ requests in steps
\* The handlers again, one step per await, for requests that overlap: a
\* handler starts its translator calls, resumes when they have returned,
\* issues its database operations and resumes when they have completed, and
\* responds.  What each step computes is what the handler run computes.

\* The run of the handler the request asks for.
RunOf(request) ==
    IF request.op = "/search/users"
    THEN SearchUsersRun([prompt |-> request.prompt, reply |-> request.replies.users],
                        request.limit, request.failAt)
    ELSE RunCombined(request)

\* The response of a handler run.
Response(out) == [status |-> out.status, body |-> out.body]

\* The requests that overlap: users searches (plain and redirected) and
\* combined searches over HTTP and MCP, populated, whose first database
\* operation may fail.
StepRequests ==
    {Request("/search/users", "users", [prompt |-> Prompt, reply |-> r], Undef, Undef, f) :
        r \in Json1({QLocation, ForeignKey("events", November("Event_date"))}),
        f \in {0, 1}}
      \cup {RequestAll(op[1], r, Undef, op[2], f) :
               op \in {<<"/search/all", Undef>>, <<"search_all", Bool(TRUE)>>},
               r \in {[users |-> Reply("garbage", Undef), events |-> Reply("json", QAll),
                       dating |-> Reply("json", QAll)],
                      [users |-> Reply("json", ForeignKey("events", QEventType)),
                       events |-> Reply("json", November("Event_date")),
                       dating |-> Reply("json", QDatingLocation)]},
               f \in {0, 1}}

\* A server that handles overlapping requests, after startup.
StepInit ==
    /\ ALLOW_PII = FALSE
    /\ openai = TRUE
    /\ db = SmallStore
    /\ phase = "idle"
    /\ req = NoRequest
    /\ filters = NoFilters
    /\ reads = <<>>
    /\ l = 0
    /\ res = NoResponse
    /\ task = [c \in Clients |-> NoTask]

\* A handler that issues database operations without awaiting its
\* translator calls.
NotAwaited(t) == TRUE

\* await parsePromptToMongoQuery(...) / await Promise.all([...]): the handler
\* goes on when every translator call has returned.
TranslationsAwaited(t) == t.pending = {}

\* The database operations the handler issues next: the three finds of the
\* MCP search_all together (Promise.all), every other one by itself.
NextBatch(t) ==
    IF Cardinality(t.done) >= Len(t.plan) THEN {}
    ELSE IF t.req.op = "search_all" /\ t.done = {} THEN 1..Min(3, Len(t.plan))
    ELSE {Cardinality(t.done) + 1}

\* Promise.all of the three finds of search_all rejects as soon as one of
\* them does.
PromiseAllRejected(t) ==
    /\ t.req.op = "search_all"
    /\ \E k \in t.done :
          /\ k <= 3
          /\ k = t.req.failAt \/ Rejected(t.plan[k].filter)

\* The invocation a request starts, out being the handler run on the store
\* as the request finds it: the translator calls, one per collection hint,
\* are all started before the handler first awaits.
Started(request, out) ==
    [NoTask EXCEPT !.pc = "running", !.req = request, !.pending = HintsOf(request),
                   !.plan = out.reads, !.alone = Response(out)]

\* A request arrives: the handler starts its translator calls.
Begin(c) ==
    /\ task[c].pc = "idle"
    /\ \E request \in StepRequests :
          task' = [task EXCEPT ![c] = Started(request, RunOf(request))]
    /\ UNCHANGED <<ALLOW_PII, openai, db, phase, req, filters, reads, l, res>>

\* A translator call returns its query.
TranslateDone(c) ==
    /\ task[c].pc = "running"
    /\ \E h \in task[c].pending :
          task' = [task EXCEPT ![c].pending = @ \ {h},
                               ![c].filters[h] =
                                   parsePromptToMongoQuery(task[c].req.prompt,
                                                           task[c].req.replies[h])]
    /\ UNCHANGED <<ALLOW_PII, openai, db, phase, req, filters, reads, l, res>>

\* The handler issues its next database operations.
StartReads(c) ==
    /\ task[c].pc = "running"
    /\ TranslationsAwaited(task[c])
    /\ task[c].flying = {}
    /\ NextBatch(task[c]) # {}
    /\ task' = [task EXCEPT ![c].flying = NextBatch(task[c])]
    /\ UNCHANGED <<ALLOW_PII, openai, db, phase, req, filters, reads, l, res>>

\* A database operation completes (or fails).
ReadDone(c) ==
    /\ task[c].pc \in {"running", "responded"}
    /\ \E k \in task[c].flying :
          task' = [task EXCEPT ![c].flying = @ \ {k}, ![c].done = @ \cup {k}]
    /\ UNCHANGED <<ALLOW_PII, openai, db, phase, req, filters, reads, l, res>>

\* res.json(...), the catch's res.status(500).json(...), or the tool's
\* return / throw: the handler answers when nothing it awaits is left, or
\* when the Promise.all it awaits has rejected.
Respond(c) ==
    /\ task[c].pc = "running"
    /\ TranslationsAwaited(task[c])
    /\ \/ PromiseAllRejected(task[c])
       \/ task[c].flying = {} /\ NextBatch(task[c]) = {}
    /\ task' = [task EXCEPT ![c].pc = "responded",
                            ![c].res = Response(RunOf(task[c].req)),
                            ![c].sent = @ + 1]
    /\ db' = StoreAfter(db, task[c].plan)
    /\ UNCHANGED <<ALLOW_PII, openai, phase, req, filters, reads, l, res>>

\* The invocation is over once nothing it started is in flight.
Finish(c) ==
    /\ task[c].pc = "responded"
    /\ task[c].flying = {}
    /\ task' = [task EXCEPT ![c] = NoTask]
    /\ UNCHANGED <<ALLOW_PII, openai, db, phase, req, filters, reads, l, res>>

StepNext ==
    \E c \in Clients :
        \/ Begin(c)
        \/ TranslateDone(c)
        \/ StartReads(c)
        \/ ReadDone(c)
        \/ Respond(c)
        \/ Finish(c)

Overlapping == StepInit /\ [][StepNext]_vars

RECURSIVE Unconverted(_)
\* Some object inside x is a date marker the normalizer has not replaced.
Unconverted(x) ==
    CASE x.t = "arr" -> \E i \in 1..Len(x.v) : Unconverted(x.v[i])
      [] x.t = "obj" ->
            \/ HasKey(x, "$dateFromString")
            \/ \E i \in 1..Len(x.v) : Unconverted(x.v[i][2])
      [] OTHER -> FALSE

\* C15: within one request no database operation is in flight before the
\* translator calls have returned and the Translated Query has been through
\* the handler's marker check and the date normalization: while an
\* operation is in flight no translation is, every query has been returned,
\* the operation's filter carries no unconverted date marker and, on the
\* HTTP endpoints, no redirect marker.
C15_ReadsAfterTranslation ==
    \A c \in Clients :
        task[c].flying # {}
            => /\ task[c].pending = {}
               /\ \A h \in HintsOf(task[c].req) : task[c].filters[h] # Undef
               /\ \A k \in task[c].flying :
                      /\ ~Unconverted(task[c].plan[k].filter)
                      /\ task[c].req.op \in CurrentHttp
                            => ~IsForeignKey(task[c].plan[k].filter)

\* C15: a combined search whose users query is a redirect and whose events
\* query carries date markers has a database operation in flight.
C15_Witness ==
    \E c \in Clients :
        /\ task[c].req.op = "/search/all"
        /\ task[c].flying # {}
        /\ IsForeignKey(task[c].filters.users)
        /\ Unconverted(task[c].filters.events)

\* C16: in combined search a response is sent only after the three
\* pipelines have completed: once a response is sent no translator call and
\* no database operation of the request is still in flight, and exactly one
\* response has been sent.
C16_ResponseAfterPipelines ==
    \A c \in Clients :
        (task[c].pc = "responded" /\ task[c].req.op \in {"/search/all", "search_all"})
            => /\ task[c].pending = {}
               /\ task[c].flying = {}
               /\ task[c].sent = 1

C21_NeverThrows ==
    \A h \in HintsOf(req) :
        (Responded /\ filters[h] # Undef) => convertDateFromString(filters[h]) # Thrown

\* The node is a map carrying the date-construct marker with a dateString.
IsDateLiteral(x) ==
    /\ HasKey(x, "$dateFromString")
    /\ Truthy(Get(Get(x, "$dateFromString"), "dateString"))

RECURSIVE Normalized(_)
\* The normal form the specification asks for: date literals replaced by the
\* date parsed from their dateString, everything else kept, at every depth.
Normalized(x) ==
    CASE x.t = "arr" -> Arr([i \in 1..Len(x.v) |-> Normalized(x.v[i])])
      [] x.t = "obj" ->
            IF IsDateLiteral(x)
            THEN NewDate(Get(Get(x, "$dateFromString"), "dateString"))
            ELSE Obj([i \in 1..Len(x.v) |-> <<x.v[i][1], Normalized(x.v[i][2])>>])
      [] OTHER -> x

\* C22: for every Translated Query (nested maps, sequences and scalars) the
\* Date-Literal Normalizer returns the copy in which each map carrying the
\* marker with a dateString is one date value parsed from that dateString
\* and every other scalar, map and sequence is unchanged, at every depth.
C22_NormalForm ==
    \A h \in HintsOf(req) :
        (Responded /\ filters[h] # Undef)
            => convertDateFromString(filters[h]) = Normalized(filters[h])

\* C23: for every record the servers redact, the Sensitive-Field Redactor
\* (either copy of hideSensitive) returns the record without Salary and
\* email when the PII flag is disabled and the record itself when it is
\* enabled, every other attribute, the identifier included, preserved.
C23_Redactor ==
    Responded
        => \A i \in 1..Len(db.users) :
               /\ hideSensitive(db.users[i]) = Redacted(db.users[i])
               /\ hideSensitiveOld(db.users[i]) = Redacted(db.users[i])

\* The display name matches the free text as a case-insensitive substring,
\* for the names and texts of the model.
NameMatches(name, text) == <<name, text>> \in {<<Str("user"), Str("User")>>}

\* The identifiers of the Identity records whose display name matches.
MatchedIds(text) ==
    {Get(db.users[i], "_id") : i \in {j \in 1..Len(db.users) :
                                         NameMatches(Get(db.users[j], "Name"), text)}}

\* The record refers to one of the identifiers.
RefersTo(doc, ids) ==
    \E k \in 1..Len(ParticipantIds(doc) \o PartnerIds(doc)) :
        (ParticipantIds(doc) \o PartnerIds(doc))[k] \in ids

\* C24: in an events or dating search, the identifiers of the Identity
\* records whose display name matches the free text are unioned into the
\* Translated Query before execution, so that (the collection fitting the
\* limit) every record referring to one of them is returned; when no name
\* matches, the query is executed unchanged.  Stated for a server that has
\* a translator client.
C24_NameAugmented ==
    \A h \in HintsOf(req) :
        (Succeeded /\ openai /\ req.op \in {"/search/events", "/search/dating"})
            => LET ids == MatchedIds(req.prompt)
                   coll == Collection(Target(h))
               IN  /\ ids = {} => reads[1].filter = convertDateFromString(filters[h])
                   /\ (ids # {} /\ l >= Len(coll))
                         => \A i \in 1..Len(coll) :
                                RefersTo(coll[i], ids)
                                    => \E j \in 1..Len(Page(h)) :
                                           Get(Page(h)[j], "_id") = Get(coll[i], "_id")

\* The caller asked for population: populate=true in the query string, or
\* the populate argument true.
CallerRequested == req.populate \in {Str("true"), Bool(TRUE)}

\* C25: on every surface, an events or dating search whose caller supplies
\* no populate value populates (its page referring to some identifier, it
\* reads the users for them), and a combined search populates exactly when
\* the caller requests it.
C25_PopulateDefault ==
    /\ \A h \in HintsOf(req) \ {"users"} :
           (Succeeded /\ req.op \in {"/search/events", "/search/dating",
                                     "search_events", "search_dating"}
                      /\ req.populate = Undef /\ Len(PageIds(h)) >= 1)
               => PopulateReads # <<>>
    /\ (Succeeded /\ req.op \in Combined
                  /\ \E h \in {"events", "dating"} : Len(PageIds(h)) >= 1)
           => (UnlimitedUsersReads # <<>>) = CallerRequested

\* The request went to a path of index.js other than /health.
Guarded == Responded /\ req.path \notin {"", "/health"}

\* The header carries the configured key as bearer token.
BearerKey == {Header(word, n, API_KEY) : word \in {"Bearer", "bearer", "BEARER"}, n \in 1..2}

\* C26: every request to a path other than /health that does not carry the
\* configured API key as bearer token is answered 401, no translator called
\* and no database operation issued; only requests with the key reach a
\* search handler.
C26_KeyRequired ==
    (Guarded /\ req.auth \notin BearerKey)
        => /\ res.status = 401
           /\ filters = NoFilters
           /\ reads = <<>>
           /\ req.op = "middleware"

\* C26 amended: a request to a path other than /health whose Authorization
\* header is neither the configured key nor the key after a leading
\* "Bearer" and whitespace (in any case) reaches no handler, calls no
\* translator and issues no database operation; it is answered 401 when its
\* body got past the JSON parser, and 400 by the parser otherwise.
C26_KeyOrBearerKey ==
    (Guarded /\ req.auth \notin BearerKey \cup {Header("", 0, API_KEY)})
        => /\ res.status = IF req.parsed THEN 401 ELSE 400
           /\ filters = NoFilters
           /\ reads = <<>>
           /\ req.op = "middleware"

\* C26: a users search with the key under the Basic scheme, answered 401 by
\* the middleware.
C26_Witness ==
    /\ Responded
    /\ req.path = "/search/users"
    /\ req.auth = Header("Basic", 1, API_KEY)
    /\ req.parsed
    /\ res = [status |-> 401, body |-> Unauthorized]

\* The query carries both the redirect marker and the criteria.
CarriesBoth(q) == HasKey(q, "__foreign_key_query") /\ HasKey(q, "__criteria")

\* The request read the users once, with its normalized query as filter.
OrdinaryFilter == reads = <<Read("users", convertDateFromString(filters.users), l)>>

\* The search_users tool run on the request's query, limit and store.
OnMcp == McpSearchUsersRun([prompt |-> req.prompt, reply |-> req.replies.users], req.limit, 0)

\* The HTTP users search answered what the search_users tool answers.
SameAsMcp ==
    OnMcp.status = 200
        => /\ Get(OnMcp.body, "results") = Arr(Page("users"))
           /\ Get(OnMcp.body, "count") = Count("users")

\* C27: the redirect is taken only for a users query that carries both the
\* marker and the criteria; every other query, and every query on the
\* search_users tool, is run as an ordinary filter on the users, and the
\* HTTP users search returns what the tool returns for the same query.
C27_SameOnBothSurfaces ==
    /\ (Succeeded /\ req.op = "/search/users")
          => /\ ~CarriesBoth(filters.users) => OrdinaryFilter
             /\ SameAsMcp
    /\ (Succeeded /\ req.op = "search_users") => OrdinaryFilter

\* C27 amended: the same, the HTTP users search returning what the tool
\* returns for every query that does not carry both the marker and the
\* criteria; in a combined search such a users query is read as an ordinary
\* filter too.
C27_SameUnlessRedirected ==
    /\ (Succeeded /\ req.op = "/search/users" /\ ~CarriesBoth(filters.users))
          => OrdinaryFilter /\ SameAsMcp
    /\ (Succeeded /\ req.op = "search_users") => OrdinaryFilter
    /\ (Succeeded /\ req.op = "/search/all" /\ ~CarriesBoth(filters.users))
          => reads[1] = Read("users", convertDateFromString(filters.users), l)

\* C27: a users search whose query carries the marker without criteria,
\* answered from one ordinary read of the users.
C27_Witness ==
    /\ Succeeded
    /\ req.op = "/search/users"
    /\ HasKey(filters.users, "__foreign_key_query")
    /\ ~HasKey(filters.users, "__criteria")
    /\ OrdinaryFilter

\* The secondary collection the redirect of the users query names, "" when
\* it is neither events nor dating.
Secondary ==
    CASE Get(filters.users, "__foreign_key_query") = Str("events") -> "events"
      [] Get(filters.users, "__foreign_key_query") = Str("dating") -> "datings"
      [] OTHER -> ""

\* The secondary records the criteria of the redirect match.
Matches == Find(Secondary, convertDateFromString(Get(filters.users, "__criteria")), {})

\* No matching secondary record refers to an identifier.
NoIdentifier ==
    \A i \in 1..Len(Matches) : ParticipantIds(Matches[i]) \o PartnerIds(Matches[i]) = <<>>

\* The redirect has nothing to resolve.
NothingToResolve ==
    \/ Secondary = ""
    \/ /\ convertDateFromString(Get(filters.users, "__criteria")) # Thrown
       /\ Matches = <<>> \/ NoIdentifier

\* C28: a redirect whose secondary name is neither events nor dating, or
\* whose criteria match no secondary record, or whose matches refer to no
\* identifier, answers count 0 with an empty list and never reads the users.
C28_EmptyRedirect ==
    (Responded /\ req.op = "/search/users" /\ IsForeignKey(filters.users) /\ NothingToResolve)
        => /\ res = [status |-> 200, body |-> Envelope(<<>>)]
           /\ \A i \in 1..Len(reads) : reads[i].coll # "users"

\* C28: a redirect whose criteria match an event without participant list,
\* answered empty after the one read of the events.
C28_Witness ==
    /\ Responded
    /\ req.op = "/search/users"
    /\ IsForeignKey(filters.users)
    /\ Secondary = "events"
    /\ convertDateFromString(Get(filters.users, "__criteria")) # Thrown
    /\ Len(Matches) > 0
    /\ NoIdentifier
    /\ Len(reads) = 1
    /\ res.body = Envelope(<<>>)

\* C29: when the prompt is empty or the server has no translator client, the
\* Translated Query of every hint is a no-match query, whatever the
\* translator would have replied, and a search that succeeds returns no
\* record for it.
C29_NoMatchWithoutTranslator ==
    \A h \in HintsOf(req) :
        (Responded /\ (~openai \/ ~Truthy(req.prompt)))
            => /\ IsNoMatch(filters[h])
               /\ Succeeded => Page(h) = <<>>

\* The count at the top of a combined search's body (totalCount on the
\* search_all tool).
TopCount ==
    IF HasKey(res.body, "count") THEN Get(res.body, "count") ELSE Get(res.body, "totalCount")

\* C30: in every successful search response the count is the number of
\* records of the result list; in a combined search each section's count is
\* the length of its data and the top-level count is the sum of the three,
\* population or not.
C30_CountIsLength ==
    Succeeded
        => /\ \A h \in HintsOf(req) : Count(h) = Num(Len(Page(h)))
           /\ req.op \in Combined
                 => TopCount = Num(Len(Page("users")) + Len(Page("events")) + Len(Page("dating")))

\* C30: a combined search that populated, its three sections non-empty.
C30_Witness ==
    /\ Succeeded
    /\ req.op = "/search/all"
    /\ UnlimitedUsersReads # <<>>
    /\ \A h \in Hints : Len(Page(h)) > 0
    /\ Get(res.body, "count").v >= 3

====
